---- MODULE Spec2Model ----
(***************************************************************************)
(* Categorical columns of pandas-on-Spark: the codec of                    *)
(* data_type_ops/categorical_ops.py (restore / prepare) and the            *)
(* category-set operations of indexes/category.py (CategoricalIndex).      *)
(*                                                                         *)
(* A column is a record [categories, ordered, codes, name]: the dtype's    *)
(* category list and ordered flag, the integer code of every row, and the  *)
(* index name.  Codes are 0-based as in the program; TLA+ sequences are    *)
(* 1-based, so code c names categories[c + 1].                             *)
(***************************************************************************)
EXTENDS Integers, Sequences, FiniteSets, TLC

\* Labels are 1..MaxLabel; a column has at most MaxRows rows.
MaxLabel == 2
MaxRows == 2

\* The missing label (NaN) and the code that stands for it.
NaN == 0
Sentinel == -1
\* The "no such key" answer of a dict-like argument's lookup.
NoKey == 0

Labels == 1..MaxLabel
Names == {"idx"}

Range(s) == {s[i] : i \in DOMAIN s}
SeqsUpTo(S, n) == UNION {[1..k -> S] : k \in 0..n}
IsUnique(s) == \A i, j \in DOMAIN s : i # j => s[i] # s[j]

\* Position (0-based) of label x in the list s, or the sentinel: what
\* pandas' categories.get_indexer answers for one value.
get_indexer(s, x) ==
    IF \E i \in DOMAIN s : s[i] = x
    THEN (CHOOSE i \in DOMAIN s : s[i] = x /\ \A j \in 1..(i - 1) : s[j] # x) - 1
    ELSE Sentinel

(***************************************************************************)
(* Results of a call: the exception raised ("" for none) with its message, *)
(* and the returned value as a sequence of length 0 (nothing returned) or  *)
(* 1.                                                                      *)
(***************************************************************************)
Return(v) == [exc |-> "", msg |-> "", value |-> <<v>>]
Raise(e, m) == [exc |-> e, msg |-> m, value |-> <<>>]
NotCalled == [exc |-> "", msg |-> "not called", value |-> <<>>]

\* pandas' CategoricalDtype(categories, ordered): validates the categories.
CategoricalDtype(categories, ordered) ==
    IF ~IsUnique(categories)
    THEN Raise("ValueError", "Categorical categories must be unique")
    ELSE Return([categories |-> categories, ordered |-> ordered])

(***************************************************************************)
(* categorical_ops.py                                                      *)
(***************************************************************************)
\* restore with a code outside the categories read as missing instead of refused.
restore_lenient(col, dtype) ==
    Return([values |-> [i \in DOMAIN col |->
                           IF col[i] < 0 \/ col[i] >= Len(dtype.categories) THEN NaN
                           ELSE dtype.categories[col[i] + 1]],
            categories |-> dtype.categories,
            ordered |-> dtype.ordered])

\* CategoricalOps.restore: pd.Categorical.from_codes(col, categories, ordered).
restore(col, dtype) ==
    IF \E i \in DOMAIN col : col[i] >= Len(dtype.categories) \/ col[i] < Sentinel
    THEN Raise("ValueError", "codes need to be between -1 and len(categories)-1")
    ELSE Return([values |-> [i \in DOMAIN col |->
                                IF col[i] = Sentinel THEN NaN
                                ELSE dtype.categories[col[i] + 1]],
                 categories |-> dtype.categories,
                 ordered |-> dtype.ordered])

\* prepare with positions counted from 1.
prepare_from_one(col) ==
    [i \in DOMAIN col.values |->
        IF col.values[i] = NaN THEN Sentinel
        ELSE get_indexer(col.categories, col.values[i]) + 1]

\* CategoricalOps.prepare: col.cat.codes.
prepare(col) ==
    [i \in DOMAIN col.values |-> get_indexer(col.categories, col.values[i])]

(***************************************************************************)
(* The category-set algebra behind Series.cat, which CategoricalIndex      *)
(* defers to after materializing the column.  It works on a categorical    *)
(* value [values, categories, ordered]: one label (or NaN) per row.        *)
(***************************************************************************)
\* Index.to_series(): the column materialized as a categorical value.
to_series(self) ==
    restore(self.codes, [categories |-> self.categories, ordered |-> self.ordered])

\* Series.cat.add_categories(new_categories)
cat_add_categories(v, new_categories) ==
    IF \E i \in DOMAIN new_categories : new_categories[i] \in Range(v.categories)
    THEN Raise("ValueError", "new categories must not include old categories")
    ELSE LET d == CategoricalDtype(v.categories \o new_categories, v.ordered)
         IN  IF d.exc # "" THEN d
             ELSE Return([v EXCEPT !.categories = d.value[1].categories])

\* Series.cat.remove_categories(removals)
cat_remove_categories(v, removals) ==
    IF \E i \in DOMAIN removals : removals[i] \notin Range(v.categories)
    THEN Raise("ValueError", "removals must all be in old categories")
    ELSE LET kept(c) == c \notin Range(removals)
         IN  Return([values |-> [i \in DOMAIN v.values |->
                                    IF v.values[i] # NaN /\ kept(v.values[i])
                                    THEN v.values[i] ELSE NaN],
                     categories |-> SelectSeq(v.categories, kept),
                     ordered |-> v.ordered])

\* The category list rename_categories computes from its argument: a
\* list-like (positional), a dict-like (partial, by old label) or a callable.
renamed(categories, arg) ==
    CASE arg.form = "dict" ->
           [i \in DOMAIN categories |->
               IF arg.map[categories[i]] # NoKey THEN arg.map[categories[i]]
               ELSE categories[i]]
      [] arg.form = "callable" ->
           [i \in DOMAIN categories |-> arg.map[categories[i]]]
      [] OTHER -> arg.list

\* Series.cat.rename_categories(new_categories)
cat_rename_categories(v, arg) ==
    IF arg.form = "list" /\ Len(arg.list) # Len(v.categories)
    THEN Raise("ValueError",
               "new categories need to have the same number of items as the old categories!")
    ELSE LET d == CategoricalDtype(renamed(v.categories, arg), v.ordered)
         IN  IF d.exc # "" THEN d
             ELSE Return([values |-> [i \in DOMAIN v.values |->
                                         IF v.values[i] = NaN THEN NaN
                                         ELSE d.value[1].categories[
                                                get_indexer(v.categories, v.values[i]) + 1]],
                          categories |-> d.value[1].categories,
                          ordered |-> v.ordered])

\* Series.cat.as_ordered() and Series.cat.as_unordered()
cat_as_ordered(v) == Return([v EXCEPT !.ordered = TRUE])
cat_as_unordered(v) == Return([v EXCEPT !.ordered = FALSE])

(***************************************************************************)
(* indexes/category.py: CategoricalIndex.  Every method answers            *)
(* [self, exc, msg, value, materialized]: the object the call was made on  *)
(* as the call leaves it, the exception or returned column, and whether    *)
(* to_series() was evaluated.                                              *)
(***************************************************************************)
InplaceMsg == "cannot use inplace with CategoricalIndex"

\* CategoricalIndex(series): the index built from a categorical series; its
\* codes are the series' codes under the series' dtype.
CategoricalIndex(v, name) ==
    [categories |-> v.categories, ordered |-> v.ordered,
     codes |-> prepare(v), name |-> name]

\* Index.rename(name)
rename(idx, name) == [idx EXCEPT !.name = name]

\* The tail shared by the five methods: the accessor's result r made an
\* index again and renamed, or its exception propagated.
Reindexed(self, r) ==
    IF r.exc # ""
    THEN [self |-> self, exc |-> r.exc, msg |-> r.msg, value |-> <<>>,
          materialized |-> TRUE]
    ELSE [self |-> self, exc |-> "", msg |-> "",
          value |-> <<rename(CategoricalIndex(r.value[1], "None"), self.name)>>,
          materialized |-> TRUE]

RaiseInplace(self) ==
    [self |-> self, exc |-> "ValueError", msg |-> InplaceMsg, value |-> <<>>,
     materialized |-> FALSE]

\* add_categories with the inplace flag looked at only after the work is done.
add_categories_late_check(self, new_categories, inplace) ==
    LET s == to_series(self)
        r == IF s.exc # "" THEN Reindexed(self, s)
             ELSE Reindexed(self, cat_add_categories(s.value[1], new_categories))
    IN  IF r.exc = "" /\ inplace
        THEN [RaiseInplace(self) EXCEPT !.materialized = TRUE]
        ELSE r

\* add_categories with the new categories put in front of the old ones.
add_categories_in_front(self, new_categories, inplace) ==
    IF inplace THEN RaiseInplace(self)
    ELSE LET s == to_series(self)
             r == cat_add_categories(s.value[1], new_categories)
         IN  IF s.exc # "" THEN Reindexed(self, s)
             ELSE IF r.exc # "" THEN Reindexed(self, r)
             ELSE Reindexed(self,
                     Return([s.value[1] EXCEPT
                               !.categories = new_categories \o s.value[1].categories]))

add_categories(self, new_categories, inplace) ==
    IF inplace THEN RaiseInplace(self)
    ELSE LET s == to_series(self)
         IN  IF s.exc # "" THEN Reindexed(self, s)
             ELSE Reindexed(self, cat_add_categories(s.value[1], new_categories))

\* as_ordered calling the accessor's as_unordered.
as_ordered_swapped(self, inplace) ==
    IF inplace THEN RaiseInplace(self)
    ELSE LET s == to_series(self)
         IN  IF s.exc # "" THEN Reindexed(self, s)
             ELSE Reindexed(self, cat_as_unordered(s.value[1]))

as_ordered(self, inplace) ==
    IF inplace THEN RaiseInplace(self)
    ELSE LET s == to_series(self)
         IN  IF s.exc # "" THEN Reindexed(self, s)
             ELSE Reindexed(self, cat_as_ordered(s.value[1]))

\* as_unordered that also clears the flag of the index it is called on.
as_unordered_on_self(self, inplace) ==
    IF inplace THEN RaiseInplace(self)
    ELSE LET s == to_series(self)
         IN  IF s.exc # "" THEN Reindexed(self, s)
             ELSE [Reindexed(self, cat_as_unordered(s.value[1]))
                     EXCEPT !.self = [self EXCEPT !.ordered = FALSE]]

as_unordered(self, inplace) ==
    IF inplace THEN RaiseInplace(self)
    ELSE LET s == to_series(self)
         IN  IF s.exc # "" THEN Reindexed(self, s)
             ELSE Reindexed(self, cat_as_unordered(s.value[1]))

\* remove_categories that swaps the dtype and keeps the codes as they were.
remove_categories_stale_codes(self, removals, inplace) ==
    IF inplace THEN RaiseInplace(self)
    ELSE LET s == to_series(self)
             r == Reindexed(self, cat_remove_categories(s.value[1], removals))
         IN  IF s.exc # "" THEN Reindexed(self, s)
             ELSE IF r.exc # "" THEN r
             ELSE [r EXCEPT !.value = <<[r.value[1] EXCEPT !.codes = self.codes]>>]

remove_categories(self, removals, inplace) ==
    IF inplace THEN RaiseInplace(self)
    ELSE LET s == to_series(self)
         IN  IF s.exc # "" THEN Reindexed(self, s)
             ELSE Reindexed(self, cat_remove_categories(s.value[1], removals))

\* rename_categories that re-encodes the old labels against the new categories.
rename_categories_recoded(self, new_categories, inplace) ==
    IF inplace THEN RaiseInplace(self)
    ELSE LET s == to_series(self)
             r == cat_rename_categories(s.value[1], new_categories)
         IN  IF s.exc # "" THEN Reindexed(self, s)
             ELSE IF r.exc # "" THEN Reindexed(self, r)
             ELSE Reindexed(self, Return([r.value[1] EXCEPT !.values = s.value[1].values]))

rename_categories(self, new_categories, inplace) ==
    IF inplace THEN RaiseInplace(self)
    ELSE LET s == to_series(self)
         IN  IF s.exc # "" THEN Reindexed(self, s)
             ELSE Reindexed(self, cat_rename_categories(s.value[1], new_categories))

\* The setter without the comparison of the two lengths.
set_categories_any_length(self, categories) ==
    LET dtype == CategoricalDtype(categories, self.ordered)
    IN  IF dtype.exc # ""
        THEN [self |-> self, exc |-> dtype.exc, msg |-> dtype.msg, value |-> <<>>,
              materialized |-> FALSE]
        ELSE [self |-> [self EXCEPT !.categories = dtype.value[1].categories],
              exc |-> "", msg |-> "", value |-> <<>>, materialized |-> FALSE]

\* The setter that updates the frame before it has compared the lengths.
set_categories_update_first(self, categories) ==
    LET dtype == CategoricalDtype(categories, self.ordered)
    IN  IF dtype.exc # ""
        THEN [self |-> self, exc |-> dtype.exc, msg |-> dtype.msg, value |-> <<>>,
              materialized |-> FALSE]
        ELSE IF Len(self.categories) # Len(dtype.value[1].categories)
        THEN [self |-> [self EXCEPT !.categories = dtype.value[1].categories],
              exc |-> "ValueError",
              msg |-> "new categories need to have the same number of items as the old categories!",
              value |-> <<>>, materialized |-> FALSE]
        ELSE [self |-> [self EXCEPT !.categories = dtype.value[1].categories],
              exc |-> "", msg |-> "", value |-> <<>>, materialized |-> FALSE]

\* The categories setter: validates, then updates the owning frame, through
\* which the index reads its dtype.  Returns None.
set_categories(self, categories) ==
    LET dtype == CategoricalDtype(categories, self.ordered)
    IN  IF dtype.exc # ""
        THEN [self |-> self, exc |-> dtype.exc, msg |-> dtype.msg, value |-> <<>>,
              materialized |-> FALSE]
        ELSE IF Len(self.categories) # Len(dtype.value[1].categories)
        THEN [self |-> self, exc |-> "ValueError",
              msg |-> "new categories need to have the same number of items as the old categories!",
              value |-> <<>>, materialized |-> FALSE]
        ELSE [self |-> [self EXCEPT !.categories = dtype.value[1].categories],
              exc |-> "", msg |-> "", value |-> <<>>, materialized |-> FALSE]

(***************************************************************************)
(* State.  self is the column as its owning frame holds it; call, pre and  *)
(* ret record the last call made on it: the method with its arguments, the *)
(* column as it was when the call was made, and the call's outcome.  dec   *)
(* and enc are the outcomes of restore on self's codes and of prepare on   *)
(* the restored value.                                                     *)
(***************************************************************************)
VARIABLES self, pre, call, ret, dec, enc, published, wr, rd

vars == <<self, pre, call, ret, dec, enc, published, wr, rd>>

\* The part of the state that only concurrent readers and writers use:
\* published is the list of the pairs the owning frame has held, in order,
\* each with the writer that put it there; wr is each writer's position and
\* what it has read so far; rd is the reader's position and what it has read.
conc == <<published, wr, rd>>

\* Every code is the sentinel or a position of categories, which are distinct.
Valid(c) ==
    /\ IsUnique(c.categories)
    /\ \A i \in DOMAIN c.codes :
          c.codes[i] = Sentinel \/ (0 <= c.codes[i] /\ c.codes[i] < Len(c.categories))

\* Columns as CategoricalIndex.__new__ builds them.
ValidColumns ==
    {c \in [categories : SeqsUpTo(Labels, MaxLabel), ordered : BOOLEAN,
            codes : SeqsUpTo(Sentinel..(MaxLabel - 1), MaxRows), name : Names] :
        Valid(c)}

\* Code columns as a caller of restore may hand them over, in range or not.
AnyColumns ==
    {c \in [categories : SeqsUpTo(Labels, MaxLabel), ordered : BOOLEAN,
            codes : SeqsUpTo((Sentinel - 1)..MaxLabel, MaxRows), name : Names] :
        IsUnique(c.categories)}

\* Arguments: a list of labels, a dict-like (NoKey where it has no key) or a
\* callable, each a record of one shape.
NoMap == [l \in Labels |-> NoKey]
NoArg == [form |-> "none", list |-> <<>>, map |-> NoMap]
ListArgs == [form : {"list"}, list : SeqsUpTo(Labels, MaxLabel), map : {NoMap}]
DictArgs == [form : {"dict"}, list : {<<>>}, map : [Labels -> Labels \cup {NoKey}]]
CallableArgs == [form : {"callable"}, list : {<<>>}, map : [Labels -> Labels]]

NoCall == [op |-> "none", inplace |-> FALSE, arg |-> NoArg]
NoResult == [exc |-> "", msg |-> "not called", value |-> <<>>, materialized |-> FALSE]
Idle == call = NoCall

\* Writers and the reader before they have done anything.
Writers == {"w1", "w2"}
IdleWriter ==
    [pc |-> "idle", call |-> NoCall, dtype |-> <<>>, internal |-> <<>>, overlap |-> FALSE]
IdleReader == [pc |-> "codes", codes |-> <<>>, categories |-> <<>>, ordered |-> FALSE,
               straddled |-> FALSE]
NoConc ==
    /\ published = <<>>
    /\ wr = [w \in Writers |-> IdleWriter]
    /\ rd = IdleReader

Init ==
    /\ self \in ValidColumns
    /\ pre = self
    /\ call = NoCall
    /\ ret = NoResult
    /\ dec = NotCalled
    /\ enc = NotCalled
    /\ NoConc

\* One call on self: r is what the method answers.
Called(op, arg, inplace, r) ==
    /\ pre' = self
    /\ call' = [op |-> op, inplace |-> inplace, arg |-> arg]
    /\ self' = r.self
    /\ ret' = [exc |-> r.exc, msg |-> r.msg, value |-> r.value,
               materialized |-> r.materialized]
    /\ UNCHANGED <<dec, enc, conc>>

AddCategories ==
    /\ Idle
    /\ \E a \in ListArgs, inplace \in BOOLEAN :
          Called("add_categories", a, inplace, add_categories(self, a.list, inplace))

RemoveCategories ==
    /\ Idle
    /\ \E a \in ListArgs, inplace \in BOOLEAN :
          Called("remove_categories", a, inplace, remove_categories(self, a.list, inplace))

RenameCategories ==
    /\ Idle
    /\ \E a \in ListArgs \cup DictArgs \cup CallableArgs, inplace \in BOOLEAN :
          Called("rename_categories", a, inplace, rename_categories(self, a, inplace))

AsOrdered ==
    /\ Idle
    /\ \E inplace \in BOOLEAN :
          Called("as_ordered", NoArg, inplace, as_ordered(self, inplace))

AsUnordered ==
    /\ Idle
    /\ \E inplace \in BOOLEAN :
          Called("as_unordered", NoArg, inplace, as_unordered(self, inplace))

SetCategories ==
    /\ Idle
    /\ \E a \in ListArgs :
          Called("categories", a, FALSE, set_categories(self, a.list))

\* The caller puts the returned column in the place of the old one.
Replace ==
    /\ ~Idle
    /\ ret.value # <<>>
    /\ self' = ret.value[1]
    /\ pre' = ret.value[1]
    /\ call' = NoCall
    /\ ret' = NoResult
    /\ UNCHANGED <<dec, enc, conc>>

\* The caller drops the returned column, or has caught the exception.
Discard ==
    /\ ~Idle
    /\ pre' = self
    /\ call' = NoCall
    /\ ret' = NoResult
    /\ UNCHANGED <<self, dec, enc, conc>>

Next ==
    \/ AddCategories
    \/ RemoveCategories
    \/ RenameCategories
    \/ AsOrdered
    \/ AsUnordered
    \/ SetCategories
    \/ Replace
    \/ Discard

Spec == Init /\ [][Next]_vars

(***************************************************************************)
(* The codec on its own: restore applied to a code column under a dtype,   *)
(* then prepare applied to what restore returned.                          *)
(***************************************************************************)
InitCodec ==
    /\ self \in AnyColumns
    /\ pre = self
    /\ call = NoCall
    /\ ret = NoResult
    /\ dec = NotCalled
    /\ enc = NotCalled
    /\ NoConc

Restore ==
    /\ dec = NotCalled
    /\ dec' = restore(self.codes, [categories |-> self.categories, ordered |-> self.ordered])
    /\ UNCHANGED <<self, pre, call, ret, enc, conc>>

Prepare ==
    /\ dec.value # <<>>
    /\ enc = NotCalled
    /\ enc' = Return(prepare(dec.value[1]))
    /\ UNCHANGED <<self, pre, call, ret, dec, conc>>

NextCodec == Restore \/ Prepare

SpecCodec == InitCodec /\ [][NextCodec]_vars

(***************************************************************************)
(* Readers and writers of one column.  self is the pair the owning frame   *)
(* holds.  A writer either assigns to categories, which runs the setter    *)
(* line by line, each line reading the frame as it is then, or calls one   *)
(* of the methods and later puts what it returned in the frame.  The       *)
(* reader calls the accessors codes, categories and ordered one after the  *)
(* other.                                                                  *)
(***************************************************************************)
\* The accessors: each reads the frame once.
codes(idx) == idx.codes
categories(idx) == idx.categories
ordered(idx) == idx.ordered

\* The setter's copy of the frame with the field's dtype replaced, dropping
\* the ordered flag the dtype was built with.
copied_unordered(internal, dtype) ==
    [internal EXCEPT !.categories = dtype.categories, !.ordered = FALSE]

\* The setter's copy of the frame with the index field's dtype replaced.
copied(internal, dtype) ==
    [internal EXCEPT !.categories = dtype.categories, !.ordered = dtype.ordered]

\* The columns the concurrent runs start from: every label a category, every
\* row present.  The methods treat rows alike and labels alike, so the
\* categories are taken in the labels' order and the codes in ascending order.
ConcColumns ==
    {c \in ValidColumns :
        /\ c.categories = [i \in 1..MaxLabel |-> i]
        /\ Len(c.codes) = MaxRows
        /\ \A i, j \in DOMAIN c.codes : i < j => c.codes[i] <= c.codes[j]}

\* The two writers are alike: the one that starts first is called w1.
MayStart(w) == wr[w].pc = "idle" /\ (w = "w2" => wr["w1"].pc # "idle")

\* What the writers ask for: a replacement list for an assignment, as long
\* as the categories or one shorter, one item to add or to remove, or a
\* change of the flag.
AssignCalls ==
    {[op |-> "categories", inplace |-> FALSE, arg |-> a] :
        a \in {x \in ListArgs : IsUnique(x.list) /\ Len(x.list) >= MaxLabel - 1}}
SwapCalls ==
    {[op |-> o, inplace |-> FALSE, arg |-> a] :
        o \in {"add_categories", "remove_categories"},
        a \in {x \in ListArgs : Len(x.list) = 1}}
    \cup {[op |-> o, inplace |-> FALSE, arg |-> NoArg] : o \in {"as_ordered", "as_unordered"}}

\* The method call c made on column p.
Method(c, p) ==
    CASE c.op = "add_categories" -> add_categories(p, c.arg.list, c.inplace)
      [] c.op = "remove_categories" -> remove_categories(p, c.arg.list, c.inplace)
      [] c.op = "rename_categories" -> rename_categories(p, c.arg, c.inplace)
      [] c.op = "as_ordered" -> as_ordered(p, c.inplace)
      [] OTHER -> as_unordered(p, c.inplace)

InFlight(w) == wr[w].pc \notin {"idle", "done", "raised"}

InitConc ==
    /\ self \in ConcColumns
    /\ pre = self
    /\ call = NoCall
    /\ ret = NoResult
    /\ dec = NotCalled
    /\ enc = NotCalled
    /\ published = <<[pair |-> self, by |-> "init"]>>
    /\ wr = [w \in Writers |-> IdleWriter]
    /\ rd = IdleReader

\* A writer's step that leaves the frame alone.
Step(w, new) ==
    /\ wr' = [wr EXCEPT ![w] = new]
    /\ UNCHANGED <<self, pre, call, ret, dec, enc, published, rd>>

\* A writer's step that puts pair p in the frame.
Publish(w, p) ==
    /\ self' = p
    /\ published' = Append(published, [pair |-> p, by |-> w])
    /\ wr' = [wr EXCEPT ![w].pc = "done"]
    /\ rd' = [rd EXCEPT !.straddled = @ \/ rd.pc \in {"categories", "ordered"}]
    /\ UNCHANGED <<pre, call, ret, dec, enc>>

\* category.py line 178: the dtype is built from the new list and self.ordered.
Assign178 ==
    \E w \in Writers, c \in AssignCalls :
        /\ MayStart(w)
        /\ LET dtype == CategoricalDtype(c.arg.list, ordered(self))
           IN  Step(w, [pc |-> IF dtype.exc # "" THEN "raised" ELSE "line180",
                        call |-> c, dtype |-> dtype.value, internal |-> <<>>,
                        overlap |-> \E o \in Writers \ {w} : InFlight(o)])

\* line 180: the lengths are compared.
Assign180 ==
    \E w \in Writers :
        /\ wr[w].pc = "line180"
        /\ Step(w, [wr[w] EXCEPT !.pc =
                      IF Len(categories(self)) # Len(wr[w].dtype[1].categories)
                      THEN "raised" ELSE "line185"])

\* lines 185-187: the frame is copied with the new dtype.
Assign185 ==
    \E w \in Writers :
        /\ wr[w].pc = "line185"
        /\ Step(w, [wr[w] EXCEPT !.pc = "line188",
                                 !.internal = <<copied(self, wr[w].dtype[1])>>])

\* line 188: the owning frame is updated.
Assign188 ==
    \E w \in Writers :
        /\ wr[w].pc = "line188"
        /\ Publish(w, wr[w].internal[1])

\* A caller calls a method on the column.
SwapCall ==
    \E w \in Writers, c \in SwapCalls :
        /\ MayStart(w)
        /\ LET r == Method(c, self)
           IN  Step(w, [pc |-> IF r.exc # "" THEN "raised" ELSE "swap",
                        call |-> c, dtype |-> <<>>, internal |-> r.value,
                        overlap |-> \E o \in Writers \ {w} : InFlight(o)])

\* The caller puts the returned column in the frame.
SwapIn ==
    \E w \in Writers :
        /\ wr[w].pc = "swap"
        /\ Publish(w, wr[w].internal[1])

ReadCodes ==
    /\ rd.pc = "codes"
    /\ rd' = [rd EXCEPT !.pc = "categories", !.codes = codes(self)]
    /\ UNCHANGED <<self, pre, call, ret, dec, enc, published, wr>>

ReadCategories ==
    /\ rd.pc = "categories"
    /\ rd' = [rd EXCEPT !.pc = "ordered", !.categories = categories(self)]
    /\ UNCHANGED <<self, pre, call, ret, dec, enc, published, wr>>

ReadOrdered ==
    /\ rd.pc = "ordered"
    /\ rd' = [rd EXCEPT !.pc = "done", !.ordered = ordered(self)]
    /\ UNCHANGED <<self, pre, call, ret, dec, enc, published, wr>>

NextConc ==
    \/ Assign178
    \/ Assign180
    \/ Assign185
    \/ Assign188
    \/ SwapCall
    \/ SwapIn
    \/ ReadCodes
    \/ ReadCategories
    \/ ReadOrdered

SpecConc == InitConc /\ [][NextConc]_vars

(***************************************************************************)
(* Properties.                                                             *)
(***************************************************************************)
\* The label row i of column c decodes to.
Label(c, i) == IF c.codes[i] = Sentinel THEN NaN ELSE c.categories[c.codes[i] + 1]

\* The last call was method op, made with inplace false.
Did(op) == call.op = op /\ ~call.inplace
Failed == ret.exc # "" /\ ret.value = <<>>
Returned == ret.exc = "" /\ Len(ret.value) = 1

\* C1: in every state reached from a valid column by add_categories,
\* remove_categories, rename_categories, as_ordered, as_unordered and
\* categories assignments, the column and every column a call returned have
\* distinct categories and every code is the sentinel or below the number of
\* categories.
C1_CodeValidity ==
    /\ Valid(self)
    /\ ret.value # <<>> => Valid(ret.value[1])

\* C1 witness: a removal returned a shorter category list under which a row's
\* code moved down by one.
C1_Witness ==
    /\ Did("remove_categories") /\ Returned
    /\ Len(ret.value[1].categories) < Len(pre.categories)
    /\ \E i \in DOMAIN pre.codes :
          pre.codes[i] > 0 /\ ret.value[1].codes[i] = pre.codes[i] - 1

\* C2: prepare applied to what restore returned gives back exactly the codes
\* restore was given, and restore accepts every code column whose codes are
\* the sentinel or in range.
C2_RoundTrip ==
    /\ (dec # NotCalled /\ Valid(self)) => (dec.exc = "" /\ Len(dec.value) = 1)
    /\ enc # NotCalled => enc.value = <<self.codes>>

\* C2 witness: a round trip of a column holding a sentinel and a code above 0.
C2_Witness ==
    /\ enc # NotCalled
    /\ \E i, j \in DOMAIN self.codes : self.codes[i] = Sentinel /\ self.codes[j] > 0

\* C3: remove_categories fails when an item of removals is not a category;
\* otherwise the categories are the old ones without the removed items, in
\* the old order, a row whose label was removed or missing has the sentinel,
\* and every other row keeps its label, its code being the label's position
\* in the new list.
C3_Remove ==
    Did("remove_categories") =>
        LET removed == Range(call.arg.list)
            keep(c) == c \notin removed
        IN  IF ~(removed \subseteq Range(pre.categories))
            THEN Failed
            ELSE /\ Returned
                 /\ ret.value[1].categories = SelectSeq(pre.categories, keep)
                 /\ ret.value[1].ordered = pre.ordered
                 /\ DOMAIN ret.value[1].codes = DOMAIN pre.codes
                 /\ \A i \in DOMAIN pre.codes :
                       IF Label(pre, i) \in removed \cup {NaN}
                       THEN ret.value[1].codes[i] = Sentinel
                       ELSE /\ ret.value[1].codes[i] >= 0
                            /\ Label(ret.value[1], i) = Label(pre, i)
                            /\ ret.value[1].codes[i] =
                                 get_indexer(ret.value[1].categories, Label(pre, i))

\* C3 witness: one row lost its label to the removal and another kept its
\* label under a smaller code.
C3_Witness ==
    /\ Did("remove_categories") /\ Returned
    /\ \E i, j \in DOMAIN pre.codes :
          /\ pre.codes[i] # Sentinel /\ ret.value[1].codes[i] = Sentinel
          /\ ret.value[1].codes[j] # Sentinel /\ ret.value[1].codes[j] < pre.codes[j]

\* C4: add_categories fails with the validation error when an item of the
\* new list is already a category or the new list repeats an item; otherwise
\* it returns the old categories followed by the new list, with the ordered
\* flag and every row's code as before.
C4_Add ==
    Did("add_categories") =>
        IF (\E i \in DOMAIN call.arg.list : call.arg.list[i] \in Range(pre.categories))
              \/ ~IsUnique(call.arg.list)
        THEN Failed /\ ret.exc = "ValueError"
        ELSE /\ Returned
             /\ ret.value[1].categories = pre.categories \o call.arg.list
             /\ SubSeq(ret.value[1].categories, 1, Len(pre.categories)) = pre.categories
             /\ ret.value[1].ordered = pre.ordered
             /\ ret.value[1].codes = pre.codes

\* C4 witness: a category was added to a column that has categories and rows
\* with codes.
C4_Witness ==
    /\ Did("add_categories") /\ Returned
    /\ call.arg.list # <<>> /\ pre.categories # <<>>
    /\ \E i \in DOMAIN pre.codes : pre.codes[i] # Sentinel

\* The category list a rename asks for: position i is new[i] for a list,
\* mapping[old[i]] where old[i] is a key of a dict and old[i] otherwise, and
\* f(old[i]) for a callable.
Asked(old, arg) ==
    IF arg.form = "list" THEN arg.list
    ELSE [i \in DOMAIN old |->
             IF arg.form = "callable" THEN arg.map[old[i]]
             ELSE IF arg.map[old[i]] = NoKey THEN old[i] ELSE arg.map[old[i]]]

\* C5: rename_categories fails when a list argument's length differs from
\* the number of categories or the list asked for repeats an item; otherwise
\* it returns the list asked for, with every row's code (and the ordered
\* flag) as before.
C5_Rename ==
    Did("rename_categories") =>
        LET new == Asked(pre.categories, call.arg)
        IN  IF (call.arg.form = "list" /\ Len(call.arg.list) # Len(pre.categories))
                  \/ ~IsUnique(new)
            THEN Failed
            ELSE /\ Returned
                 /\ ret.value[1].categories = new
                 /\ Len(ret.value[1].categories) = Len(pre.categories)
                 /\ ret.value[1].codes = pre.codes
                 /\ ret.value[1].ordered = pre.ordered

\* C5 witness: a dict argument with a key that is no category renamed one
\* category and passed another through, on a column with a coded row.
C5_Witness ==
    /\ Did("rename_categories") /\ Returned
    /\ call.arg.form = "dict"
    /\ \E l \in Labels : call.arg.map[l] # NoKey /\ l \notin Range(pre.categories)
    /\ ret.value[1].categories # pre.categories
    /\ \E i \in DOMAIN pre.codes : pre.codes[i] # Sentinel

\* The exception class of a violated category-set precondition.
ValidationError == "ValueError"

Mutations ==
    {"add_categories", "remove_categories", "rename_categories", "as_ordered",
     "as_unordered"}

C8_OrderFlag ==
    /\ Did("as_ordered") =>
          /\ Returned
          /\ ret.value[1] = [pre EXCEPT !.ordered = TRUE]
          /\ as_ordered(ret.value[1], FALSE).value = ret.value
    /\ Did("as_unordered") =>
          /\ Returned
          /\ ret.value[1] = [pre EXCEPT !.ordered = FALSE]
          /\ as_unordered(ret.value[1], FALSE).value = ret.value

\* C8 witness: as_ordered on an unordered column with categories and rows.
C8_Witness ==
    /\ Did("as_ordered") /\ Returned
    /\ ~pre.ordered /\ pre.categories # <<>> /\ pre.codes # <<>>

\* Every code is the sentinel or a position of the categories.
InRange(c) ==
    \A i \in DOMAIN c.codes :
        c.codes[i] = Sentinel \/ (0 <= c.codes[i] /\ c.codes[i] < Len(c.categories))

\* What restore owes for a column in range.
Decoded(c) ==
    [values |-> [i \in DOMAIN c.codes |-> Label(c, i)],
     categories |-> c.categories, ordered |-> c.ordered]

\* C9 as amended: restore maps the sentinel to missing and code c to
\* categories[c], with the dtype's categories and ordered flag; when a code
\* is neither, the whole call fails with a ValueError and yields no value.
C9_Decode ==
    dec # NotCalled =>
        IF InRange(self)
        THEN dec.exc = "" /\ dec.value = <<Decoded(self)>>
        ELSE dec.exc = "ValueError" /\ dec.value = <<>>

\* C9 witness: restore was given a code at or above the number of categories.
C9_Witness ==
    /\ dec # NotCalled
    /\ \E i \in DOMAIN self.codes : self.codes[i] >= Len(self.categories)

\* C9 as stated: the failure is of the IndexError class.
C9_Original ==
    dec # NotCalled =>
        IF InRange(self)
        THEN dec.exc = "" /\ dec.value = <<Decoded(self)>>
        ELSE dec.exc = "IndexError" /\ dec.value = <<>>

\* C10: assigning categories succeeds exactly when the new list has no
\* duplicates and as many items as the current categories; then the column
\* has the new list, its codes and ordered flag as before; otherwise an
\* error is raised and the column is as it was.
C10_Setter ==
    call.op = "categories" =>
        IF IsUnique(call.arg.list) /\ Len(call.arg.list) = Len(pre.categories)
        THEN /\ ret.exc = ""
             /\ self = [pre EXCEPT !.categories = call.arg.list]
        ELSE /\ Failed
             /\ self = pre

\* C10 witness: an assignment replaced the categories of a column with a
\* coded row.
C10_Witness ==
    /\ call.op = "categories" /\ ret.exc = ""
    /\ self.categories # pre.categories
    /\ \E i \in DOMAIN self.codes : self.codes[i] # Sentinel

\* The complete result of writer call c applied to pair p: the pair it
\* leaves in the frame, or nothing when the call raises.
Outcome(c, p) ==
    IF c.op = "categories"
    THEN LET r == set_categories(p, c.arg.list)
         IN  IF r.exc = "" THEN <<r.self>> ELSE <<>>
    ELSE Method(c, p).value

\* The k-th published pair is the complete result of its writer applied to
\* a pair published before it.
Whole(k) ==
    \E j \in 1..(k - 1) :
        Outcome(wr[published[k].by].call, published[j].pair) = <<published[k].pair>>

\* What the reader read is one published pair.
ReadWhole ==
    \E k \in DOMAIN published :
        /\ rd.codes = published[k].pair.codes
        /\ rd.categories = published[k].pair.categories
        /\ rd.ordered = published[k].pair.ordered

\* C11 as amended: every pair in the frame was put there in one step, and
\* each accessor answers from one published pair; a reader whose three
\* accessor calls no writer's update falls between observes one published
\* pair.  A pair published by a method's caller is the complete result of
\* that method on a pair published before.  A pair published by a categories
\* assignment has the assigned list, whose length was checked against a
\* pair published before, with the ordered flag and the codes of pairs
\* published before, which need not be the same pair.  When the writers do
\* not overlap, every published pair is the complete result of its writer on
\* the pair published just before it; when every writer is an assignment,
\* every published pair is a complete result and the reader observes one
\* published pair.
C11_Published ==
    /\ self = published[Len(published)].pair
    /\ rd.pc = "done" =>
          /\ \E k \in DOMAIN published : rd.codes = published[k].pair.codes
          /\ \E k \in DOMAIN published : rd.categories = published[k].pair.categories
          /\ \E k \in DOMAIN published : rd.ordered = published[k].pair.ordered
          /\ ~rd.straddled => ReadWhole
    /\ \A k \in 2..Len(published) :
          LET c == wr[published[k].by].call
          IN  IF c.op # "categories"
              THEN Whole(k)
              ELSE \E i, m, j \in 1..(k - 1) :
                      /\ Len(c.arg.list) = Len(published[m].pair.categories)
                      /\ published[k].pair =
                           [published[j].pair EXCEPT
                               !.categories = c.arg.list,
                               !.ordered = published[i].pair.ordered]
    /\ (\A w \in Writers : ~wr[w].overlap) =>
          \A k \in 2..Len(published) :
              Outcome(wr[published[k].by].call, published[k - 1].pair)
                 = <<published[k].pair>>
    /\ (\A w \in Writers : wr[w].call.op \in {"none", "categories"}) =>
          /\ \A k \in 2..Len(published) : Whole(k)
          /\ rd.pc = "done" => ReadWhole

\* C11 witness: two writers overlapped and both published, the second pair
\* an assignment's that is no complete result of it, and the reader finished
\* with an update between its accessor calls.
C11_Witness ==
    /\ Len(published) = 3
    /\ \E w \in Writers : wr[w].overlap
    /\ wr[published[3].by].call.op = "categories"
    /\ ~Whole(3)
    /\ rd.pc = "done" /\ rd.straddled

\* C11 as stated: what a reader observes is one published pair, and every
\* published pair is the complete result of one writer applied to a pair
\* published before it, also when two writers overlap.
C11_Original ==
    /\ rd.pc = "done" => ReadWhole
    /\ \A k \in 2..Len(published) : Whole(k)

====
